---- MODULE Spec2Model ----
(***************************************************************************)
(* Model of the wupf plugin framework (src/src/lib.rs): the Handler cell   *)
(* (OnceLock<Mutex<P>>), the C-ABI trampolines of the Plugin / OnInput /   *)
(* OnUpdate traits and the chained hooks generated by hook_on_input! and   *)
(* hook_on_update!.  Host execution contexts call the hooks; every         *)
(* trampoline is split at the points where another context can interleave. *)
(***************************************************************************)
EXTENDS Integers, Sequences, FiniteSets

\* ---------------------------------------------------------------- bounds
\* Total number of host calls explored.
MaxCalls == 4
\* Total number of host calls explored where the original read function and
\* on_input range over all their outcomes.
MaxDataCalls == 2

\* Host execution contexts that may call into the plugin.
Threads == {1, 2}
\* Bit positions of an input record.
Bits == {0, 1}
\* The record with every button held.
AllHeld == 2 ^ Cardinality(Bits) - 1
\* Raw values of one input record.
Raw == 0 .. AllHeld
\* Channel arguments the host passes (VPADChan / WPADChan).
Chans == {0, 1}
\* The count / size argument of the input hooks.
Counts == {0, 1, 2}
\* Number of records in the buffer handed to the input hooks.
BufLen == 2
\* Buffers the original read function can leave behind: any record at
\* every index.
Samples == [1 .. BufLen -> Raw]
\* Error codes the original read function writes: no error, or an error.
ErrCodes == {0, -1}
\* Status values the original read function returns.
Statuses == {0, 1}
\* What the original read function reports: any error code with any status.
OrigResults == [err : ErrCodes, status : Statuses]
\* Outcomes of one call of the original read function: any buffer with any
\* result.
Reads == Samples \X OrigResults

\* The application types of the repository, each with its own
\* `static HANDLER`: MyApp of main.rs and MyPlugin of the crate example.
\* Both implement Plugin only and register hook_plugin! only.
RepoTypes == {"MyApp", "MyPlugin"}
\* The `$plugin` of hook_on_input! / hook_on_update!: a type that implements
\* Plugin, OnInput and OnUpdate.  The repository has no such type, so the
\* bodies of its user methods are not given by the source.
FullType == "P"
Types == RepoTypes \cup {FullType}

LifecycleOps == {"init", "deinit", "start", "exit"}
InputOps == {"vpad", "kpad"}
HookOps == InputOps \cup {"update"}
Ops == LifecycleOps \cup HookOps
GetBeforeErrTest == Ops \ {"init"}

\* Trampolines that go straight to Handler::get.
PlainOps == {"deinit", "start", "exit", "update"}

VARIABLES
    inner,      \* per type, Handler.inner: the OnceLock<Mutex<P>>, with the P it guards
    holders,    \* per type, the execution contexts holding the Mutex
    poisoned,   \* per type, the Mutex's poison flag
    pc,         \* position of each execution context
    op,         \* the hook / trampoline each context is in
    ty,         \* the application type (Self) of that trampoline
    chan,       \* argument chan
    buf,        \* the record buffer behind the buffers / data pointer
    err,        \* the value behind the error pointer
    count,      \* argument count / size
    status,     \* local `status` of the chained hook
    ret,        \* what the hook returned to the host: <<>> until it returns, then <<status>>
    local,      \* on_init's result, or the state the user method read on entry
    rstate,     \* the State returned by on_input
    nCalls,     \* host calls made so far
    nInitCalls, \* probe: invocations of ffi_on_init
    nOnInit,    \* probe: executions of on_init
    nSetOk,     \* probe: per type, values installed in the cell
    firstSet,   \* probe: per type, id of the on_init result passed to the first set that ran
    nAdded,     \* probe: what the user methods have added to `a`
    lastLeft,   \* probe: per type, the state left by the last set / user method
    deinitDone, \* probe: on_deinit has run to completion
    origDone,   \* probe: the original host function of this hook call completed
    origStatus, \* probe: the status the original host function returned
    trampRuns,  \* probe: trampoline entries during this hook call
    userRuns,   \* probe: user-method invocations during this call
    port,       \* probe: the port passed to on_input
    bufB,       \* probe: the buffer when the trampoline began
    poisonB     \* probe: the poison flag when the trampoline began

cellv == <<inner, holders, poisoned>>
argv == <<chan, buf, err, count>>
hookv == <<status, ret>>
countv == <<nCalls, nInitCalls, nOnInit, nSetOk, firstSet, nAdded, lastLeft, deinitDone>>
probev == <<origDone, origStatus, trampRuns, userRuns, port, bufB, poisonB>>
vars == <<cellv, pc, op, ty, argv, hookv, local, rstate, countv, probev>>

\* ------------------------------------------------------- pure operations

\* The empty OnceLock (Handler::new).
HandlerNew == [set |-> FALSE, a |-> 0, id |-> 0]

\* The value of P that on_init builds; id names the execution that built it.
OnInitValue(k) == [a |-> 0, id |-> k]

SetOverwrites(c, p) == [set |-> TRUE, a |-> p.a, id |-> p.id]

\* Handler::set: OnceLock::set installs only into an empty cell; the Err of
\* a repeated set is dropped by `let _ =`.
HandlerSet(c, p) == IF c.set THEN c ELSE [set |-> TRUE, a |-> p.a, id |-> p.id]

GetDefaults(c) == TRUE

\* Handler::get: OnceLock::get().expect(..) succeeds iff the cell is set.
HandlerGet(c) == c.set

LockNoExclusion(h, t) == TRUE

\* Mutex::lock can return only while no other context holds the guard.
LockAvailable(h, t) == h = {}

UnwrapSwallows(p) == TRUE

\* lock().unwrap(): a poisoned Mutex yields Err, and unwrap panics.
LockUnwrap(p) == ~p

\* GamepadError::try_from(*error).is_err(): the raw code names an error.
IsErr(e) == e # 0

NoShortCircuit(e) == FALSE

\* The early-return test of ffi_on_vpad / ffi_on_kpad.
ErrorReturn(e) == IsErr(e)

\* Bit i of a raw record value.
Bit(x, i) == (x \div (2 ^ i)) % 2

\* gamepad::State::from(record): the set of buttons held in the record.
\* The conversion is an impl of the wut crate, which this repository only
\* calls; its reading here follows the specification's "state bitfield".
StateFrom(x) == {i \in Bits : Bit(x, i) = 1}

RECURSIVE Pack(_)
\* The raw value whose set bits are the positions in s.
Pack(s) == IF s = {} THEN 0
           ELSE LET i == CHOOSE j \in s : TRUE IN 2 ^ i + Pack(s \ {i})

\* `*buffers &= state`: the record keeps the bits that are also in state.
\* BitAndAssign<State> for VPADStatus / KPADStatus is an impl of the wut
\* crate, which this repository only calls; bitwise AND is the reading the
\* specification gives it, the source here does not fix it.
BitAndAssign(x, s) == Pack(StateFrom(x) \cap s)

PortAlwaysDrc(o, c) == [family |-> "DRC", n |-> 0]

\* The port handed to on_input: Port::DRC for ffi_on_vpad,
\* Port::from_wpad(chan) for ffi_on_kpad.
PortOf(o, c) == IF o = "vpad" THEN [family |-> "DRC", n |-> 0]
                ELSE [family |-> "WPAD", n |-> c]

ReturnsZero(s) == 0

\* The chained hook returns the status of the original function.
HookResult(s) == s

SkipsOriginal(o) == "tramp"

\* Where a host call starts: a chained hook first calls the original
\* function (`hooked(..)`), a lifecycle hook is the trampoline itself.
EntryPoint(o) == IF o \in HookOps THEN "hooked" ELSE "tramp"

DeinitTakes(o, c) == IF o = "deinit" THEN HandlerNew ELSE c

\* What a trampoline leaves in the cell when its body ends: the guard is
\* dropped and the value stays (Handler::take exists only as a comment).
AfterTrampoline(o, c) == c

LazyOnInit(c) == ~c.set

\* ffi_on_init evaluates the argument Self::on_init() before it calls set,
\* whatever the cell holds.
RunsOnInit(c) == TRUE

MergeCount(b, n, s) ==
    [i \in 1 .. BufLen |-> IF i <= n THEN BitAndAssign(b[i], s) ELSE b[i]]

\* `*buffers &= state` on the buffer pointer: the record the pointer names,
\* the first one, is masked; count is not read.
MergeBuf(b, n, s) == [b EXCEPT ![1] = BitAndAssign(b[1], s)]

GuardLeaks(h, t) == h

\* Drop of the MutexGuard `app`: the context gives the Mutex back.
GuardDrop(h, t) == h \ {t}

SharedStatic(T) == "MyApp"

\* StaticHandler::handler(): the static HANDLER declared inside the impl of
\* type T, one per implementing type.
HandlerOf(T) == T

\* What MyApp's on_deinit / on_start / on_exit add to `a`: they only print.
MyAppAdds(o) == {0}

\* What MyPlugin's methods add to `a`: on_start and on_exit run
\* `self.a += 1`, on_deinit is empty.
MyPluginAdds(o) == IF o \in {"start", "exit"} THEN {1} ELSE {0}

\* What a user method of type T may add to `a`.  The trait only declares the
\* methods (on_deinit, on_start, on_exit, on_input, on_update), so a type
\* outside the repository may leave the state or change it.
UserAdds(T, o) ==
    IF T = "MyApp" THEN MyAppAdds(o)
    ELSE IF T = "MyPlugin" THEN MyPluginAdds(o)
    ELSE {0, 1}

\* What a user method that panics may have added to `a` before the panic:
\* nothing, or what the method adds when it returns.
PanicAdds(T, o) == {0} \cup UserAdds(T, o)

\* A panic inside an extern "C" trampoline ends the process.  Depending on
\* the build the locals of the trampoline are dropped on the way (unwinding
\* up to the C boundary) or not (abort at the panic).
Unwinds == BOOLEAN

\* Positions of a context whose trampoline panicked.
Failed == {"fatal", "aborted"}

\* The process has not been ended by a panic.
Running == \A t \in Threads : pc[t] # "aborted"

NoPort == [family |-> "none", n |-> 0]
ZeroBuf == [i \in 1 .. BufLen |-> 0]
NoLocal == [a |-> 0, id |-> 0]

\* ---------------------------------------------------------------- Init

Init ==
    /\ inner = [T \in Types |-> HandlerNew]
    /\ holders = [T \in Types |-> {}]
    /\ poisoned = [T \in Types |-> FALSE]
    /\ pc = [t \in Threads |-> "idle"]
    /\ op = [t \in Threads |-> "init"]
    /\ ty = [t \in Threads |-> FullType]
    /\ chan = [t \in Threads |-> 0]
    /\ buf = [t \in Threads |-> ZeroBuf]
    /\ err = [t \in Threads |-> 0]
    /\ count = [t \in Threads |-> 0]
    /\ status = [t \in Threads |-> 0]
    /\ ret = [t \in Threads |-> <<>>]
    /\ local = [t \in Threads |-> NoLocal]
    /\ rstate = [t \in Threads |-> {}]
    /\ nCalls = 0
    /\ nInitCalls = 0
    /\ nOnInit = 0
    /\ nSetOk = [T \in Types |-> 0]
    /\ firstSet = [T \in Types |-> 0]
    /\ nAdded = 0
    /\ lastLeft = [T \in Types |-> 0]
    /\ deinitDone = FALSE
    /\ origDone = [t \in Threads |-> FALSE]
    /\ origStatus = [t \in Threads |-> 0]
    /\ trampRuns = [t \in Threads |-> 0]
    /\ userRuns = [t \in Threads |-> 0]
    /\ port = [t \in Threads |-> NoPort]
    /\ bufB = [t \in Threads |-> ZeroBuf]
    /\ poisonB = [t \in Threads |-> FALSE]

\* -------------------------------------------------------------- actions

\* The host calls a registered hook of one of `types` on execution context
\* t, with arguments drawn from `chans` and `counts`.
CallWith(t, types, ops, chans, counts) ==
    /\ Running
    /\ pc[t] = "idle"
    /\ nCalls < MaxCalls
    /\ \E T \in types, o \in ops, c \in chans, n \in counts :
        /\ op' = [op EXCEPT ![t] = o]
        /\ ty' = [ty EXCEPT ![t] = T]
        /\ pc' = [pc EXCEPT ![t] = EntryPoint(o)]
        /\ chan' = [chan EXCEPT ![t] = IF o \in InputOps THEN c ELSE 0]
        /\ count' = [count EXCEPT ![t] = IF o \in InputOps THEN n ELSE 0]
        /\ nInitCalls' = IF o = "init" THEN nInitCalls + 1 ELSE nInitCalls
        /\ poisonB' = [poisonB EXCEPT ![t] = poisoned[HandlerOf(T)]]
    /\ nCalls' = nCalls + 1
    /\ UNCHANGED <<cellv, buf, err, hookv, local, rstate>>
    /\ UNCHANGED <<nOnInit, nSetOk, firstSet, nAdded, lastLeft, deinitDone>>
    /\ UNCHANGED <<origDone, origStatus, trampRuns, userRuns, port, bufB>>

\* The host calls one of the hooks that hook_plugin!, hook_on_input! and
\* hook_on_update! register for a type, on any execution context t, the
\* input hooks with channel 0 and one record.
Call(t) == CallWith(t, {FullType}, Ops, {0}, {1})

\* `let status = unsafe { hooked(..) }`: the original host function runs to
\* completion; for the input hooks it fills the buffer and the error code
\* with one of `reads`.
HookedWith(t, reads) ==
    /\ Running
    /\ pc[t] = "hooked"
    /\ \E br \in reads :
        LET b == br[1]
            r == br[2]
        IN  /\ buf' = [buf EXCEPT ![t] = IF op[t] \in InputOps THEN b ELSE ZeroBuf]
            /\ bufB' = [bufB EXCEPT ![t] = IF op[t] \in InputOps THEN b ELSE ZeroBuf]
            /\ err' = [err EXCEPT ![t] = IF op[t] \in InputOps THEN r.err ELSE 0]
            /\ status' = [status EXCEPT ![t] = IF op[t] \in InputOps THEN r.status ELSE 0]
            /\ origStatus' = [origStatus EXCEPT ![t] = IF op[t] \in InputOps THEN r.status ELSE 0]
    /\ origDone' = [origDone EXCEPT ![t] = TRUE]
    /\ poisonB' = [poisonB EXCEPT ![t] = poisoned[HandlerOf(ty[t])]]
    /\ pc' = [pc EXCEPT ![t] = "tramp"]
    /\ UNCHANGED <<cellv, op, ty, chan, count, ret, local, rstate, countv>>
    /\ UNCHANGED <<trampRuns, userRuns, port>>

\* The original host function with every outcome of Reads.
Hooked(t) == HookedWith(t, Reads)

\* ffi_on_init, first half: Self::on_init() builds the state.
OnInit(t) ==
    /\ Running
    /\ pc[t] = "tramp"
    /\ op[t] = "init"
    /\ IF RunsOnInit(inner[HandlerOf(ty[t])])
       THEN /\ local' = [local EXCEPT ![t] = OnInitValue(nOnInit + 1)]
            /\ nOnInit' = nOnInit + 1
       ELSE /\ local' = [local EXCEPT ![t] = NoLocal]
            /\ nOnInit' = nOnInit
    /\ trampRuns' = [trampRuns EXCEPT ![t] = trampRuns[t] + 1]
    /\ pc' = [pc EXCEPT ![t] = "set"]
    /\ UNCHANGED <<cellv, op, ty, argv, hookv, rstate>>
    /\ UNCHANGED <<nCalls, nInitCalls, nSetOk, firstSet, nAdded, lastLeft, deinitDone>>
    /\ UNCHANGED <<origDone, origStatus, userRuns, port, bufB, poisonB>>

\* ffi_on_init, first half, when the user's on_init panics: nothing was
\* built and the cell is not touched.
OnInitPanic(t) ==
    /\ Running
    /\ pc[t] = "tramp"
    /\ op[t] = "init"
    /\ nOnInit' = nOnInit + 1
    /\ trampRuns' = [trampRuns EXCEPT ![t] = trampRuns[t] + 1]
    /\ pc' = [pc EXCEPT ![t] = "fatal"]
    /\ UNCHANGED <<cellv, op, ty, argv, hookv, local, rstate>>
    /\ UNCHANGED <<nCalls, nInitCalls, nSetOk, firstSet, nAdded, lastLeft, deinitDone>>
    /\ UNCHANGED <<origDone, origStatus, userRuns, port, bufB, poisonB>>

\* ffi_on_init, second half: Self::handler().set(..), then return.
Set(t) ==
    /\ Running
    /\ pc[t] = "set"
    /\ LET h == HandlerOf(ty[t]) IN
        /\ inner' = [inner EXCEPT ![h] = HandlerSet(inner[h], local[t])]
        /\ nSetOk' = [nSetOk EXCEPT ![h] = IF inner[h].set THEN @ ELSE @ + 1]
        /\ lastLeft' = [lastLeft EXCEPT ![h] = IF inner[h].set THEN @ ELSE local[t].a]
        /\ firstSet' = [firstSet EXCEPT ![h] = IF @ = 0 THEN local[t].id ELSE @]
    /\ pc' = [pc EXCEPT ![t] = "done"]
    /\ UNCHANGED <<holders, poisoned, op, ty, argv, hookv, local, rstate>>
    /\ UNCHANGED <<nCalls, nInitCalls, nOnInit, nAdded, deinitDone, probev>>

\* ffi_on_vpad / ffi_on_kpad: the error test that opens the trampoline.
ErrCheck(t) ==
    /\ Running
    /\ pc[t] = "tramp"
    /\ op[t] \in InputOps
    /\ trampRuns' = [trampRuns EXCEPT ![t] = trampRuns[t] + 1]
    /\ pc' = [pc EXCEPT ![t] = IF ErrorReturn(err[t]) THEN "ret" ELSE "get"]
    /\ UNCHANGED <<cellv, op, ty, argv, hookv, local, rstate, countv>>
    /\ UNCHANGED <<origDone, origStatus, userRuns, port, bufB, poisonB>>

\* `let handler = Self::handler().get();` panics on an empty cell.
Get(t) ==
    /\ Running
    /\ \/ pc[t] = "get"
       \/ pc[t] = "tramp" /\ op[t] \in PlainOps
    /\ trampRuns' = [trampRuns EXCEPT ![t] =
                        IF pc[t] = "tramp" THEN trampRuns[t] + 1 ELSE trampRuns[t]]
    /\ pc' = [pc EXCEPT ![t] = IF HandlerGet(inner[HandlerOf(ty[t])]) THEN "lock" ELSE "fatal"]
    /\ UNCHANGED <<cellv, op, ty, argv, hookv, local, rstate, countv>>
    /\ UNCHANGED <<origDone, origStatus, userRuns, port, bufB, poisonB>>

\* `let mut app = handler.lock().unwrap();` blocks while the Mutex is held.
\* On a poisoned Mutex lock() hands the guard over inside the Err and unwrap
\* panics; the guard is given back only if the panic unwinds.
Lock(t) ==
    /\ Running
    /\ pc[t] = "lock"
    /\ LockAvailable(holders[HandlerOf(ty[t])], t)
    /\ IF LockUnwrap(poisoned[HandlerOf(ty[t])])
       THEN /\ holders' = [holders EXCEPT ![HandlerOf(ty[t])] = @ \cup {t}]
            /\ pc' = [pc EXCEPT ![t] = "locked"]
       ELSE /\ \E u \in Unwinds :
                 holders' = [holders EXCEPT ![HandlerOf(ty[t])] =
                                IF u THEN @ ELSE @ \cup {t}]
            /\ pc' = [pc EXCEPT ![t] = "fatal"]
    /\ UNCHANGED <<inner, poisoned, op, ty, argv, hookv, local, rstate, countv, probev>>

\* The trampoline calls the user method (on_deinit, on_start, on_exit,
\* on_update, on_input) on the guarded state, which reads its fields.
UserCall(t) ==
    /\ Running
    /\ pc[t] = "locked"
    /\ LET app == inner[HandlerOf(ty[t])] IN
        local' = [local EXCEPT ![t] = [a |-> app.a, id |-> app.id]]
    /\ userRuns' = [userRuns EXCEPT ![t] = userRuns[t] + 1]
    /\ port' = [port EXCEPT ![t] =
                   IF op[t] \in InputOps THEN PortOf(op[t], chan[t]) ELSE NoPort]
    /\ pc' = [pc EXCEPT ![t] = "user"]
    /\ UNCHANGED <<cellv, op, ty, argv, hookv, rstate, countv>>
    /\ UNCHANGED <<origDone, origStatus, trampRuns, bufB, poisonB>>

\* The user method writes the state back (with what this type's method adds
\* to `a`) and returns; on_input returns one of `states`.
UserReturnWith(t, states) ==
    /\ Running
    /\ pc[t] = "user"
    /\ \E d \in UserAdds(ty[t], op[t]) :
        /\ inner' = [inner EXCEPT ![HandlerOf(ty[t])].a = local[t].a + d]
        /\ lastLeft' = [lastLeft EXCEPT ![HandlerOf(ty[t])] = local[t].a + d]
        /\ nAdded' = nAdded + d
    /\ deinitDone' = (deinitDone \/ op[t] = "deinit")
    /\ \E r \in states :
        rstate' = [rstate EXCEPT ![t] = IF op[t] \in InputOps THEN r ELSE {}]
    /\ pc' = [pc EXCEPT ![t] = IF op[t] \in InputOps THEN "merge" ELSE "unlock"]
    /\ UNCHANGED <<holders, poisoned, op, ty, argv, hookv, local>>
    /\ UNCHANGED <<nCalls, nInitCalls, nOnInit, nSetOk, firstSet, probev>>

\* A user method that may return any State from on_input.
UserReturn(t) == UserReturnWith(t, SUBSET Bits)

\* The user method panics, after it has or has not written to the state.
\* If the panic unwinds, the guard `app` is dropped on the way, which poisons
\* the Mutex and frees it; otherwise the Mutex stays held and unpoisoned.
UserPanic(t) ==
    /\ Running
    /\ pc[t] = "user"
    /\ \E d \in PanicAdds(ty[t], op[t]) :
        /\ inner' = [inner EXCEPT ![HandlerOf(ty[t])].a = local[t].a + d]
        /\ lastLeft' = [lastLeft EXCEPT ![HandlerOf(ty[t])] = local[t].a + d]
        /\ nAdded' = nAdded + d
    /\ \E u \in Unwinds :
        /\ poisoned' = [poisoned EXCEPT ![HandlerOf(ty[t])] = IF u THEN TRUE ELSE @]
        /\ holders' = [holders EXCEPT ![HandlerOf(ty[t])] =
                          IF u THEN GuardDrop(@, t) ELSE @]
    /\ pc' = [pc EXCEPT ![t] = "fatal"]
    /\ UNCHANGED <<op, ty, argv, hookv, local, rstate>>
    /\ UNCHANGED <<nCalls, nInitCalls, nOnInit, nSetOk, firstSet, deinitDone, probev>>

\* `*buffers &= <returned state>`: only the first record is written.
Merge(t) ==
    /\ Running
    /\ pc[t] = "merge"
    /\ buf' = [buf EXCEPT ![t] = MergeBuf(buf[t], count[t], rstate[t])]
    /\ pc' = [pc EXCEPT ![t] = "unlock"]
    /\ UNCHANGED <<cellv, op, ty, chan, err, count, hookv, local, rstate, countv, probev>>

\* End of the trampoline body: the MutexGuard `app` is dropped.
Unlock(t) ==
    /\ Running
    /\ pc[t] = "unlock"
    /\ holders' = [holders EXCEPT ![HandlerOf(ty[t])] = GuardDrop(@, t)]
    /\ inner' = [inner EXCEPT ![HandlerOf(ty[t])] = AfterTrampoline(op[t], @)]
    /\ pc' = [pc EXCEPT ![t] = IF op[t] \in HookOps THEN "ret" ELSE "done"]
    /\ UNCHANGED <<poisoned, op, ty, argv, hookv, local, rstate, countv, probev>>

\* The chained hook returns `status` to the host.
HookReturn(t) ==
    /\ Running
    /\ pc[t] = "ret"
    /\ ret' = [ret EXCEPT ![t] = <<HookResult(status[t])>>]
    /\ pc' = [pc EXCEPT ![t] = "done"]
    /\ UNCHANGED <<cellv, op, ty, argv, status, local, rstate, countv, probev>>

\* The panic of a trampoline (expect on the empty cell, unwrap on the
\* poisoned lock, a panicking user method) cannot leave the extern "C"
\* function: the process ends, and no context takes another step.
Abort(t) ==
    /\ Running
    /\ pc[t] = "fatal"
    /\ pc' = [pc EXCEPT ![t] = "aborted"]
    /\ UNCHANGED <<cellv, op, ty, argv, hookv, local, rstate, countv, probev>>

\* The call has returned to the host: its arguments and locals go out of
\* scope.
Reap(t) ==
    /\ Running
    /\ pc[t] = "done"
    /\ pc' = [pc EXCEPT ![t] = "idle"]
    /\ op' = [op EXCEPT ![t] = "init"]
    /\ ty' = [ty EXCEPT ![t] = FullType]
    /\ chan' = [chan EXCEPT ![t] = 0]
    /\ buf' = [buf EXCEPT ![t] = ZeroBuf]
    /\ err' = [err EXCEPT ![t] = 0]
    /\ count' = [count EXCEPT ![t] = 0]
    /\ status' = [status EXCEPT ![t] = 0]
    /\ ret' = [ret EXCEPT ![t] = <<>>]
    /\ local' = [local EXCEPT ![t] = NoLocal]
    /\ rstate' = [rstate EXCEPT ![t] = {}]
    /\ origDone' = [origDone EXCEPT ![t] = FALSE]
    /\ origStatus' = [origStatus EXCEPT ![t] = 0]
    /\ trampRuns' = [trampRuns EXCEPT ![t] = 0]
    /\ userRuns' = [userRuns EXCEPT ![t] = 0]
    /\ port' = [port EXCEPT ![t] = NoPort]
    /\ bufB' = [bufB EXCEPT ![t] = ZeroBuf]
    /\ poisonB' = [poisonB EXCEPT ![t] = FALSE]
    /\ UNCHANGED <<cellv, countv>>

\* The original read function leaves every button held in every record and
\* returns status 1, with or without an error.
HookedHeld(t) ==
    HookedWith(t, {br \in Reads : br[2].status = 1 /\ \A i \in 1 .. BufLen : br[1][i] = AllHeld})

\* An on_input that releases every button.
UserReturnNone(t) == UserReturnWith(t, {{}})

Next ==
    \E t \in Threads :
        \/ Call(t)
        \/ HookedHeld(t)
        \/ OnInit(t)
        \/ OnInitPanic(t)
        \/ Set(t)
        \/ ErrCheck(t)
        \/ Get(t)
        \/ Lock(t)
        \/ UserCall(t)
        \/ UserReturnNone(t)
        \/ UserPanic(t)
        \/ Merge(t)
        \/ Unlock(t)
        \/ HookReturn(t)
        \/ Abort(t)
        \/ Reap(t)

Spec == Init /\ [][Next]_vars

\* The host calls ffi_on_init or one of the input hooks, with any channel and
\* any count, on any execution context t.
CallInput(t) == CallWith(t, {FullType}, {"init"} \cup InputOps, Chans, Counts)

NextInput ==
    \E t \in Threads :
        \/ CallInput(t)
        \/ HookedHeld(t)
        \/ OnInit(t)
        \/ OnInitPanic(t)
        \/ Set(t)
        \/ ErrCheck(t)
        \/ Get(t)
        \/ Lock(t)
        \/ UserCall(t)
        \/ UserReturnNone(t)
        \/ UserPanic(t)
        \/ Merge(t)
        \/ Unlock(t)
        \/ HookReturn(t)
        \/ Abort(t)
        \/ Reap(t)

SpecInput == Init /\ [][NextInput]_vars

\* The host calls ffi_on_init or one of the chained hooks, the input hooks
\* with channel 0 and one record, on any execution context t.
CallData(t) ==
    /\ nCalls < MaxDataCalls
    /\ CallWith(t, {FullType}, {"init"} \cup HookOps, {0}, {1})

\* The chained hooks with every outcome of the original read function and
\* every State returned by on_input.
NextData ==
    \E t \in Threads :
        \/ CallData(t)
        \/ Hooked(t)
        \/ OnInit(t)
        \/ OnInitPanic(t)
        \/ Set(t)
        \/ ErrCheck(t)
        \/ Get(t)
        \/ Lock(t)
        \/ UserCall(t)
        \/ UserReturn(t)
        \/ UserPanic(t)
        \/ Merge(t)
        \/ Unlock(t)
        \/ HookReturn(t)
        \/ Abort(t)
        \/ Reap(t)

SpecData == Init /\ [][NextData]_vars

\* The builds of the repository, hook_plugin!(MyApp) of main.rs and
\* hook_plugin!(MyPlugin) of the crate example: the host calls a lifecycle
\* hook of either type on execution context t.
CallTyped(t) == CallWith(t, RepoTypes, LifecycleOps, {0}, {0})

NextTypes ==
    \E t \in Threads :
        \/ CallTyped(t)
        \/ OnInit(t)
        \/ OnInitPanic(t)
        \/ Set(t)
        \/ Get(t)
        \/ Lock(t)
        \/ UserCall(t)
        \/ UserReturn(t)
        \/ UserPanic(t)
        \/ Unlock(t)
        \/ Abort(t)
        \/ Reap(t)

SpecTypes == Init /\ [][NextTypes]_vars

\* The steps a context takes on its own once the host has called it, when
\* user methods return instead of panicking.
Progress(t) ==
    \/ HookedHeld(t)
    \/ OnInit(t)
    \/ Set(t)
    \/ ErrCheck(t)
    \/ Get(t)
    \/ UserCall(t)
    \/ UserReturnNone(t)
    \/ Merge(t)
    \/ Unlock(t)
    \/ HookReturn(t)
    \/ Abort(t)

NextLive ==
    \E t \in Threads :
        \/ Call(t)
        \/ Progress(t)
        \/ Lock(t)
        \/ Reap(t)

\* A called context keeps running (the trampolines are synchronous code), and
\* a context that waits in lock() gets the Mutex if it is free again and again.
Fairness == \A t \in Threads : WF_vars(Progress(t)) /\ SF_vars(Lock(t))

SpecLive == Init /\ [][NextLive]_vars /\ Fairness

\* ------------------------------------------------------- claim formulas

\* Positions at which a context holds the guard.
Holding == {"locked", "user", "merge", "unlock"}
\* Thread t takes a step.
Steps(t) == pc'[t] # pc[t]
\* The step of t is the evaluation of Handler::get.
GetStep(t) == (pc[t] = "get" \/ (pc[t] = "tramp" /\ op[t] \in PlainOps)) /\ Steps(t)
\* No trampoline has panicked.
NoPanic == \A t \in Threads : pc[t] \notin Failed

C1State ==
    /\ nSetOk[FullType] <= 1
    /\ (firstSet[FullType] # 0 =>
           /\ nSetOk[FullType] = 1
           /\ inner[FullType].set
           /\ inner[FullType].id = firstSet[FullType])
    /\ \A t \in Threads : (op[t] = "init" /\ pc[t] \in Failed) => local[t] = NoLocal
C1Step ==
    \A t \in Threads :
        (pc[t] = "set" /\ Steps(t))
            => /\ pc'[t] = "done"
               /\ inner[FullType].set => inner'[FullType] = inner[FullType]
\* C1: over any number and interleaving of ffi_on_init calls a value is
\* installed exactly once; the cell holds the result of the on_init whose set
\* ran first; a later set changes nothing in the cell and the init call
\* returns normally (an init call fails only inside a panicking on_init,
\* before it has a value to set).
C1_SingleInit == [](C1State) /\ [][C1Step]_vars
\* Two init calls have finished and the result of the second was discarded.
C1_Witness ==
    \E t \in Threads :
        /\ op[t] = "init" /\ pc[t] = "done"
        /\ nInitCalls >= 2 /\ nSetOk[FullType] = 1
        /\ inner[FullType].set /\ local[t].id # inner[FullType].id

C2State ==
    \A t \in Threads :
        /\ (pc[t] \in Holding \cup {"lock"} \/ userRuns[t] > 0) => inner[FullType].set
        /\ (pc[t] \in Failed /\ ~inner[FullType].set)
              => (userRuns[t] = 0 /\ buf[t] = bufB[t] /\ ret[t] = << >>)
C2Step ==
    \A t \in Threads :
        /\ (GetStep(t) /\ ~inner[FullType].set) => pc'[t] = "fatal"
        /\ (pc[t] \in Failed /\ Steps(t)) => pc'[t] = "aborted"
\* C2: a trampoline that reaches Handler::get while the cell is empty ends in
\* a fatal failure and never returns to the host; it never takes the lock or
\* calls the user method on a made-up state.
C2_GetBeforeInit == [](C2State) /\ [][C2Step]_vars
\* A trampoline failed on the empty cell and the process ended.
C2_Witness ==
    \E t \in Threads :
        /\ pc[t] = "aborted" /\ ~inner[FullType].set
        /\ op[t] \in PlainOps \cup InputOps /\ trampRuns[t] = 1

\* C3: at most one context is between taking the guard and dropping it, so
\* user-method bodies never overlap, and the counter in the state equals the
\* sum of what the user methods added to it.
C3_Exclusive ==
    /\ Cardinality({t \in Threads : pc[t] \in Holding}) <= 1
    /\ Cardinality(holders[FullType]) <= 1
    /\ \A t \in Threads :
          /\ pc[t] \in Holding => t \in holders[FullType]
          /\ t \in holders[FullType] => pc[t] \in Holding \cup Failed
    /\ inner[FullType].a = nAdded
\* One input trampoline is inside on_input while an input trampoline of the
\* other context waits for the lock, after an earlier increment.
C3_Witness ==
    \E t, u \in Threads :
        /\ t # u
        /\ pc[t] = "user" /\ op[t] \in InputOps
        /\ pc[u] = "lock" /\ op[u] \in InputOps
        /\ nAdded >= 1

C5State ==
    \A t \in Threads :
        (op[t] \in InputOps /\ origDone[t] /\ IsErr(err[t]))
            => /\ pc[t] \in {"tramp", "ret", "done"}
               /\ userRuns[t] = 0
               /\ buf[t] = bufB[t]
C5Step ==
    \A t \in Threads :
        (op[t] \in InputOps /\ origDone[t] /\ IsErr(err[t]) /\ Steps(t))
            => (inner'[FullType] = inner[FullType] /\ userRuns' = userRuns
                   /\ holders'[FullType] = holders[FullType])
\* C5: an input trampoline whose error status names an error returns without
\* calling on_input and leaves the buffer and the application state as they were.
C5_ErrorShortCircuit == [](C5State) /\ [][C5Step]_vars
\* An error-path input call returned on an initialised cell with a non-zero record.
C5_Witness ==
    \E t \in Threads :
        /\ op[t] \in InputOps /\ IsErr(err[t]) /\ pc[t] = "done"
        /\ inner[FullType].set /\ ~poisoned[FullType] /\ buf[t][1] # 0

\* C6: in a chained hook the original function has completed before the
\* trampoline begins, the trampoline is entered exactly once per hook call,
\* and an input hook hands the original status back to the host.
C6_HookChaining ==
    \A t \in Threads :
        op[t] \in HookOps =>
            /\ pc[t] = "hooked" => (~origDone[t] /\ trampRuns[t] = 0)
            /\ pc[t] # "hooked" => origDone[t]
            /\ trampRuns[t] > 0 => origDone[t]
            /\ trampRuns[t] <= 1
            /\ pc[t] \in {"ret", "done"} \cup Failed => trampRuns[t] = 1
            /\ pc[t] # "done" => ret[t] = << >>
            /\ pc[t] = "done" => ret[t] = <<origStatus[t]>>
\* An input hook returned the original status after the plugin masked the buffer.
C6_Witness ==
    \E t \in Threads :
        /\ op[t] = "vpad" /\ pc[t] = "done"
        /\ buf[t] # bufB[t]
        /\ origStatus[t] = 1 /\ ret[t] = <<1>>

C7State ==
    /\ firstSet["MyPlugin"] # 0 =>
          (inner["MyPlugin"].set /\ inner["MyPlugin"].id = firstSet["MyPlugin"])
    /\ \A t \in Threads :
          (pc[t] = "user" /\ ty[t] = "MyPlugin")
              => (local[t].a = lastLeft["MyPlugin"] /\ local[t].id = firstSet["MyPlugin"])
C7Step ==
    \A t \in Threads :
        (ty[t] = "MyPlugin" /\ op[t] \in {"start", "exit"}) =>
            /\ (Steps(t) /\ inner["MyPlugin"].set /\ ~poisoned["MyPlugin"]
                   /\ pc[t] \notin {"user"} \cup Failed) => pc'[t] \notin Failed
            /\ (pc[t] = "user" /\ pc'[t] = "unlock")
                   => /\ inner'["MyPlugin"].a = inner["MyPlugin"].a + 1
                      /\ inner'["MyPlugin"].id = inner["MyPlugin"].id
\* C7: once MyPlugin's cell is set, ffi_on_start / ffi_on_exit succeed any
\* number of times without another init (they fail only if the user method
\* panics or the lock is poisoned), each sees the state the previous callback
\* left, and its increment is added to that state.
C7_SessionSymmetry == [](C7State) /\ [][C7Step]_vars
\* After a single init, on_exit has finished and the next on_start sees both
\* earlier increments.
C7_Witness ==
    \E t, u \in Threads :
        /\ nInitCalls = 1
        /\ ty[u] = "MyPlugin" /\ op[u] = "exit" /\ pc[u] = "done"
        /\ ty[t] = "MyPlugin" /\ op[t] = "start" /\ pc[t] = "user" /\ local[t].a = 2

C8State ==
    /\ poisoned[FullType] => \A t \in Threads : pc[t] \notin Holding
    /\ \A t \in Threads :
          (poisonB[t] /\ op[t] # "init" /\ ~(op[t] \in InputOps /\ IsErr(err[t])))
              => /\ pc[t] \notin {"ret", "done"}
                 /\ userRuns[t] = 0
                 /\ buf[t] = bufB[t]
                 /\ ret[t] = << >>
C8Step ==
    /\ poisoned[FullType] => (inner'[FullType] = inner[FullType] /\ poisoned'[FullType])
    /\ \A t \in Threads :
          /\ (poisoned[FullType] /\ pc[t] = "lock" /\ Steps(t))
                => (pc'[t] = "fatal" /\ buf'[t] = buf[t] /\ userRuns'[t] = 0)
          /\ (pc[t] \in Failed /\ Steps(t)) => pc'[t] = "aborted"
\* C8: once a user method has panicked under the lock and poisoned it, every
\* trampoline that tries to lock fails fatally: it does not call the user
\* method, does not change the state or the buffer, and does not return to
\* the host.
C8_PoisonIsFatal == [](C8State) /\ [][C8Step]_vars
\* A non-error input call made after the poisoning failed at the lock.
C8_Witness ==
    \E t \in Threads :
        /\ pc[t] = "fatal" /\ poisonB[t]
        /\ op[t] \in InputOps /\ ~IsErr(err[t])
        /\ bufB[t][1] # 0 /\ trampRuns[t] = 1

C9State ==
    /\ deinitDone => inner[FullType].set
    /\ \A t \in Threads : pc[t] = "user" => local[t].id = firstSet[FullType]
C9Step ==
    /\ inner[FullType].set => (inner'[FullType].set /\ inner'[FullType].id = inner[FullType].id)
    /\ \A t \in Threads :
          /\ (deinitDone /\ GetStep(t)) => pc'[t] = "lock"
          /\ (deinitDone /\ ~poisoned[FullType] /\ pc[t] = "lock" /\ Steps(t)) => pc'[t] = "locked"
          /\ (deinitDone /\ pc[t] = "locked" /\ Steps(t)) => pc'[t] = "user"
\* C9: no step empties a set cell; after on_deinit has run, Handler::get still
\* succeeds and every later trampoline still locks and calls its user method
\* on the same state.
C9_DeinitKeepsCell == [](C9State) /\ [][C9Step]_vars
\* After on_deinit completed, a later ffi_on_start is inside on_start.
C9_Witness ==
    \E t \in Threads : deinitDone /\ op[t] = "start" /\ pc[t] = "user"

\* C10: a non-error input call that gets past the lock has called on_input
\* exactly once, with Port::DRC from ffi_on_vpad whatever chan is, and with the
\* port of its chan from ffi_on_kpad.
C10_UniformDispatch ==
    \A t \in Threads :
        (op[t] \in InputOps /\ origDone[t] /\ ~IsErr(err[t]))
            => /\ pc[t] \in {"user", "merge", "unlock", "ret", "done"}
                    => /\ userRuns[t] = 1
                       /\ op[t] = "vpad" => port[t] = [family |-> "DRC", n |-> 0]
                       /\ op[t] = "kpad" => port[t] = [family |-> "WPAD", n |-> chan[t]]
               /\ pc[t] \in {"tramp", "get", "lock", "locked"} => userRuns[t] = 0
               /\ userRuns[t] <= 1
\* ffi_on_kpad on channel 1 called on_input once with the port of channel 1.
C10_Witness ==
    \E t \in Threads :
        /\ op[t] = "kpad" /\ chan[t] = 1 /\ pc[t] = "done"
        /\ ~IsErr(err[t]) /\ userRuns[t] = 1 /\ port[t].n = 1

C11State ==
    /\ \A t \in Threads :
          pc[t] = "user" => local[t] = [a |-> inner[ty[t]].a, id |-> inner[ty[t]].id]
    /\ \A T \in Types : \A t \in holders[T] : ty[t] = T
C11Step ==
    \A T \in Types :
        /\ (inner'[T] # inner[T] \/ holders'[T] # holders[T] \/ poisoned'[T] # poisoned[T])
              => \E t \in Threads : Steps(t) /\ ty[t] = T
        /\ (~inner[T].set /\ inner'[T].set)
              => \E t \in Threads : Steps(t) /\ ty[t] = T /\ op[t] = "init"
\* C11: each application type has its own cell: a type's cell, lock and
\* poison flag change only in steps of that type's trampolines, a cell is
\* first set by its own type's init, and a user method works on the state of
\* its own type.
C11_CellsIndependent == [](C11State) /\ [][C11Step]_vars
\* MyPlugin was initialised and ran an incrementing callback; MyApp's own
\* init then installed a fresh state in MyApp's cell.
C11_Witness ==
    \E t \in Threads :
        /\ ty[t] = "MyApp" /\ op[t] = "init" /\ pc[t] = "done"
        /\ inner["MyPlugin"].set /\ inner["MyPlugin"].a >= 1
        /\ inner["MyApp"].set /\ inner["MyApp"].a = 0
        /\ inner["MyPlugin"].id # inner["MyApp"].id

\* Positions inside a trampoline body.
InTrampoline == {"tramp", "set", "get", "lock", "locked", "user", "merge", "unlock"}
\* C12: a context holds the lock only between the lock() of a trampoline and
\* the end of that trampoline's body: whenever no trampoline is executing or
\* has panicked the lock is free, a trampoline that has returned holds
\* nothing, and ffi_on_init never holds the lock.
C12_LockOnlyInside ==
    /\ \A t \in Threads :
          /\ t \in holders[FullType] => (pc[t] \in Holding \cup Failed /\ trampRuns[t] = 1)
          /\ pc[t] \in {"idle", "hooked", "ret", "done"} => t \notin holders[FullType]
          /\ op[t] = "init" => (t \notin holders[FullType] /\ pc[t] \notin Holding \cup {"lock"})
    /\ (\A t \in Threads : pc[t] \notin InTrampoline \cup Failed) => holders[FullType] = {}
\* Both contexts are outside any trampoline, one just back from a user method
\* it ran under the lock, the other from an init call.
C12_Witness ==
    \E t, u \in Threads :
        /\ pc[t] = "ret" /\ userRuns[t] = 1
        /\ op[u] = "init" /\ pc[u] = "done" /\ nInitCalls >= 2
        /\ holders[FullType] = {}

\* C13: with user methods that return and a fairly granted lock, every
\* trampoline invocation on an initialised cell in a process where nothing
\* has panicked, also one that waits behind a running trampoline, goes on to
\* return to the host.
C13_TrampolinesComplete ==
    \A t \in Threads :
        (pc[t] \in InTrampoline /\ inner[FullType].set /\ NoPanic)
            ~> (pc[t] = "done")
\* An input trampoline waits in lock() while the other context's input
\* trampoline holds the guard.
C13_Witness ==
    \E t, u \in Threads :
        /\ pc[t] = "lock" /\ op[t] \in InputOps
        /\ pc[u] = "merge" /\ holders[FullType] = {u}
        /\ ~poisoned[FullType] /\ NoPanic

\* C14: on_init has run once for every ffi_on_init call that got past its
\* first step, also for calls made on a set cell, while at most one value was
\* installed; once no init call is in progress the executions equal the
\* calls, and exactly one value is installed unless an on_init panicked.
C14_OnInitEveryCall ==
    /\ nOnInit = nInitCalls
                   - Cardinality({t \in Threads : op[t] = "init" /\ pc[t] = "tramp"})
    /\ nSetOk[FullType] <= 1
    /\ (nInitCalls >= 1 /\ \A t \in Threads : pc[t] \notin {"tramp", "set"})
          => nOnInit = nInitCalls
    /\ (nInitCalls >= 1 /\ NoPanic /\ \A t \in Threads : pc[t] \notin {"tramp", "set"})
          => nSetOk[FullType] = 1
\* The third init call has run on_init although the cell was set long before.
C14_Witness ==
    \E t \in Threads :
        /\ op[t] = "init" /\ pc[t] = "done" /\ local[t].id = 3
        /\ nInitCalls = 3 /\ nOnInit = 3 /\ nSetOk[FullType] = 1
        /\ inner[FullType].id # 3

C15State ==
    \A t \in Threads :
        /\ (op[t] \in InputOps /\ origDone[t] /\ IsErr(err[t]))
              => (pc[t] \in {"tramp", "ret", "done"} /\ t \notin holders[FullType])
        /\ (op[t] \in InputOps /\ origDone[t] /\ ~IsErr(err[t])
               /\ pc[t] \in Holding \cup {"lock", "ret", "done"})
              => inner[FullType].set
C15Step ==
    \A t \in Threads :
        /\ (op[t] \in InputOps /\ pc[t] = "tramp" /\ Steps(t))
              => IF IsErr(err[t])
                 THEN pc'[t] = "ret" /\ UNCHANGED cellv
                 ELSE pc'[t] = "get"
        /\ (op[t] \in InputOps /\ pc[t] = "get" /\ Steps(t) /\ ~inner[FullType].set)
              => pc'[t] = "fatal"
\* C15: the error test is the first step of an input trampoline: with an
\* error status it returns without get or lock, whatever the state of the
\* cell and of the lock; with a non-error status on an empty cell it fails.
C15_ErrorTestFirst == [](C15State) /\ [][C15Step]_vars
\* An error-status input call returned normally although the cell is empty.
C15_Witness ==
    \E t \in Threads :
        /\ op[t] \in InputOps /\ IsErr(err[t]) /\ pc[t] = "done"
        /\ ~inner[FullType].set /\ ret[t] = <<origStatus[t]>>

\* C16: whatever count / size is, a non-error input call masks the first
\* record only, after exactly one on_input call, and no input call changes a
\* record past the first.
C16_CountIgnored ==
    \A t \in Threads :
        (op[t] \in InputOps /\ origDone[t]) =>
            /\ \A i \in 2 .. BufLen : buf[t][i] = bufB[t][i]
            /\ (~IsErr(err[t]) /\ pc[t] \in {"unlock", "ret", "done"})
                  => /\ StateFrom(buf[t][1]) = StateFrom(bufB[t][1]) \cap rstate[t]
                     /\ userRuns[t] = 1
            /\ pc[t] \in {"tramp", "get", "lock", "locked", "user", "merge"}
                  => buf[t] = bufB[t]
\* With count 2 the first record was cleared and the second kept.
C16_Witness ==
    \E t \in Threads :
        /\ op[t] \in InputOps /\ ~IsErr(err[t]) /\ pc[t] = "done"
        /\ count[t] = 2 /\ rstate[t] = {}
        /\ bufB[t][1] # 0 /\ buf[t][1] = 0 /\ buf[t][2] = AllHeld

====
